---- MODULE Spec2Model ----
(***************************************************************************)
(* Two programs of the repository, each with its own specification.        *)
(*                                                                         *)
(* Spec: the configuration resolver of create-llama (questions.ts,         *)
(* askQuestions) as a state machine: one action per resolution step of the *)
(* pipeline.                                                               *)
(*                                                                         *)
(* SpecPinecone: one PineconeVectorStore instance and two calls of its     *)
(* methods running concurrently; one action per stretch of code between    *)
(* two awaits.                                                             *)
(*                                                                         *)
(* JavaScript values are written as strings: U is undefined, "" the empty  *)
(* string, "true"/"false" the booleans; a tool list is the string of its   *)
(* names.  A data source is an object: program.dataSource holds a          *)
(* reference into heap, so that two names of one object are visible.       *)
(***************************************************************************)
EXTENDS Integers, Sequences, FiniteSets, TLC

VARIABLES
  program,        \* the QuestionArgs object askQuestions receives and fills
  preferences,    \* the preferences table askQuestions receives and writes
  heap,           \* the data source objects, by reference
  pc,             \* the step askQuestions is at; "done" = returned, "exited" = process.exit(1)
  asked,          \* history: the prompts issued so far, in order
  answers,        \* history: the last answer given to each prompt
  actionChoices,  \* history: the choices the post-install prompt offered
  lastStep,       \* history: the most recent step that ran
  aborted,        \* history: the prompt the operator aborted, if any
  input,          \* the program object as it was when askQuestions was called
  inputPreferences, \* the preferences table as it was when askQuestions was called
  inputHeap,      \* the data source objects as they were when askQuestions was called
  isCI,           \* ciInfo.isCI
  env             \* process.env keys and process.platform

\* the state of the PineconeVectorStore instance and of the calls on it
VARIABLES
  db,             \* this.db: the Pinecone client the store holds, 0 when unset
  constructed,    \* how many Pinecone client objects have been constructed
  chunkSize,      \* this.chunkSize, a JavaScript number
  stored,         \* the ids of the records the Pinecone index holds
  nodes,          \* embeddingResults: the node list the add calls receive
  op,             \* the method each call runs
  cpc,            \* where each call is
  made,           \* getDb: the client a call constructed and is about to assign, 0 when none
  client,         \* the client getDb returned to each call, 0 when none yet
  loopIndex,      \* add: the loop index i of each call, a JavaScript number
  chunk,          \* add: the chunk each call has passed to upsert
  sent,           \* history: the chunks each call passed to upsert (the first MaxSent)
  outcomes,       \* history: whether each of these upserts returned (TRUE) or threw
  threw           \* history: some upsert of the call threw

askVars == <<program, preferences, heap, pc, asked, answers, actionChoices,
             lastStep, aborted, input, inputPreferences, inputHeap, isCI, env>>

storeVars == <<db, constructed, chunkSize, stored, nodes, op, cpc, made, client,
               loopIndex, chunk, sent, outcomes, threw>>

vars == <<askVars, storeVars>>

----------------------------------------------------------------------------
(* Bounds *)

\* how many folders the community repository lists
MaxRepoFolders == 2
\* how many LlamaPacks are available
MaxLlamaPacks == 2
\* how many nodes a call of add receives at most
MaxNodes == 3

----------------------------------------------------------------------------
(* Values *)

U == "undefined"

\* JavaScript truthiness of the values a field can hold
Falsy(v) == v \in {U, "", "false"}
Truthy(v) == ~Falsy(v)

\* Boolean(v)
ToBoolean(v) == IF Truthy(v) THEN "true" ELSE "false"

Fields ==
  {"template", "framework", "engine", "ui", "eslint", "frontend", "openAiKey",
   "llamaCloudKey", "model", "embeddingModel", "communityProjectPath",
   "llamapack", "postInstallAction", "dataSource", "tools", "vectorDb",
   "files", "llamaParse"}

\* references to data source objects
Refs == {"defaultsDS", "prefsDS", "inputDS", "newDS"}

EmptyConfig ==
  [path |-> U, useLlamaParse |-> U, baseUrl |-> U, depth |-> U]

DataSource(type, config) == [type |-> type, config |-> config]

NoneDataSource == DataSource("none", EmptyConfig)

\* const defaults: QuestionArgs; defaults.dataSource is the object "defaultsDS"
defaults ==
  [template |-> "streaming", framework |-> "nextjs", engine |-> "simple",
   ui |-> "html", eslint |-> "true", frontend |-> "false", openAiKey |-> "",
   llamaCloudKey |-> "", model |-> "gpt-3.5-turbo",
   embeddingModel |-> "text-embedding-ada-002", communityProjectPath |-> "",
   llamapack |-> "", postInstallAction |-> "dependencies",
   dataSource |-> "defaultsDS", tools |-> "[]",
   vectorDb |-> U, files |-> U, llamaParse |-> U]

\* getPrefOrDefault: preferences[field] ?? defaults[field]
getPrefOrDefault(prefs, field) ==
  IF prefs[field] # U THEN prefs[field] ELSE defaults[field]

----------------------------------------------------------------------------
(* The collaborators askQuestions calls *)

\* supportedTools (helpers/tools): the tool names, and the ones carrying a config
supportedTools == {"google", "wikipedia"}
ToolsWithConfig == {"google"}

\* the tools of a tool list
ToolsOf(list) ==
  CASE list = "[google]" -> {"google"}
    [] list = "[wikipedia]" -> {"wikipedia"}
    [] list = "[google,wikipedia]" -> {"google", "wikipedia"}
    [] OTHER -> {}

\* what the multiselect prompt can return: the lists of supported tools
ToolLists == {"[]", "[google]", "[wikipedia]"}

\* toolsRequireConfig (helpers/tools): some selected tool carries a config
toolsRequireConfig(tools) ==
  IF tools = U THEN FALSE ELSE ToolsOf(tools) \cap ToolsWithConfig # {}

\* getRepoRootFolders (helpers/repo): the folders of the community repository
rootFolderNames ==
  {<<"folder1", "folder2", "folder3", "folder4">>[i] : i \in 1..MaxRepoFolders}

\* getAvailableLlamapackOptions (helpers/llama-pack): the folder paths of the packs
availableLlamaPacks ==
  {<<"pack1", "pack2", "pack3", "pack4">>[i] : i \in 1..MaxLlamaPacks}

\* the file system: fs.existsSync, fs.lstatSync(p).isDirectory(), path.extname
Paths == {"/data", "/doc.pdf", "/data.csv", "/notes.txt", "/missing"}
existsSync(p) == p \in {"/data", "/doc.pdf", "/data.csv", "/notes.txt"}
isDirectory(p) == p = "/data"
extname(p) ==
  CASE p = "/doc.pdf" -> ".pdf"
    [] p = "/data.csv" -> ".csv"
    [] p = "/notes.txt" -> ".txt"
    [] OTHER -> ""

supportedContextFileTypes == {".pdf", ".doc", ".docx", ".xls", ".xlsx", ".csv"}

\* the directories of templates/components/vectordbs/<language>
vectordbDirs(lang) ==
  IF lang = "python" THEN {"none", "pg"} ELSE {"none", "mongo"}

\* getVectorDbChoices: the four choices, filtered by the directories present
getVectorDbChoices(framework) ==
  {"none", "mongo", "pg", "pinecone"}
    \cap vectordbDirs(IF framework = "fastapi" THEN "python" ELSE "typescript")

\* getDataSourceChoices
getDataSourceChoices(framework, platform) ==
  {"simple", "exampleFile"}
    \cup (IF platform \in {"win32", "darwin"} THEN {"localFile", "localFolder"} ELSE {})
    \cup (IF framework = "fastapi" THEN {"web"} ELSE {})

\* selectLocalContextData: the picked path, or "exit" where the code calls process.exit(1)
\* (unsupported OS, unsupported file type, or the picker script threw)
PickerOutcomes(type) ==
  IF type = "file" THEN {"/doc.pdf", "/data.csv", "/notes.txt", "throws"}
  ELSE {"/data", "throws"}

selectLocalContextData(type, platform, outcome) ==
  IF platform \notin {"win32", "darwin"} THEN "exit"
  ELSE IF outcome = "throws" THEN "exit"
  ELSE IF type = "file" /\ extname(outcome) \notin supportedContextFileTypes THEN "exit"
  ELSE outcome

\* what the operator can type at the base URL prompt
UrlTexts ==
  {"www.example.com", "http://example.com", "ftp://x.com", "https://", "not a url"}

\* baseUrl.includes("://")
includesSchemeSeparator(text) ==
  text \in {"http://example.com", "ftp://x.com", "https://"}

\* new URL(text).protocol, or "throws" where the constructor throws a TypeError
URLprotocol(text) ==
  CASE text = "https://www.example.com" -> "https:"
    [] text = "http://example.com" -> "http:"
    [] text = "ftp://x.com" -> "ftp:"
    [] OTHER -> "throws"

\* checkBaseUrl without the test of the protocol
checkBaseUrl_AnyProtocol(text) ==
  LET baseUrl == IF ~includesSchemeSeparator(text) THEN "https://" \o text ELSE text
      protocol == URLprotocol(baseUrl)
  IN  IF protocol = "throws" THEN "exit"
      ELSE baseUrl

\* the try block of the web step: the normalized URL, or "exit" where the catch
\* block calls process.exit(1)
checkBaseUrl(text) ==
  LET baseUrl == IF ~includesSchemeSeparator(text) THEN "https://" \o text ELSE text
      protocol == URLprotocol(baseUrl)
  IN  IF protocol = "throws" THEN "exit"
      ELSE IF protocol # "https:" /\ protocol # "http:" THEN "exit"
      ELSE baseUrl

\* the choices of the select prompts
TemplateChoices == {"simple", "streaming", "community", "llamapack"}
FrameworkChoices(template) ==
  {"express", "fastapi"} \cup (IF template = "streaming" THEN {"nextjs"} ELSE {})
UiChoices == {"html", "shadcn"}
ModelChoices ==
  {"gpt-3.5-turbo-0125", "gpt-4-turbo-preview", "gpt-4", "gpt-4-vision-preview"}
EmbeddingModelChoices ==
  {"text-embedding-ada-002", "text-embedding-3-small", "text-embedding-3-large"}
ToggleAnswers == {"true", "false"}

\* the answers the operator gives where the choice gates nothing downstream
UiAnswers == UiChoices \cap {"shadcn"}
ModelAnswers == ModelChoices \cap {"gpt-4"}
EmbeddingModelAnswers == EmbeddingModelChoices \cap {"text-embedding-3-small"}
OpenAiKeyAnswers == {"", "sk-key"}
LlamaCloudKeyAnswers == {"", "lc-key"}

PromptNames ==
  {"template", "communityProjectPath", "llamapack", "framework", "frontend",
   "ui", "model", "embeddingModel", "dataSource", "useLlamaParse",
   "llamaCloudKey", "baseUrl", "vectorDb", "tools", "openAiKey", "eslint",
   "postInstallAction"}

----------------------------------------------------------------------------
(* The Pinecone vector store (PineconeVectorStore.ts) *)

\* a JavaScript number: an integer, or NaN
Number(n) == [nan |-> FALSE, n |-> n]
NaN == [nan |-> TRUE, n |-> 0]

\* a + b
Plus(a, b) == IF a.nan \/ b.nan THEN NaN ELSE Number(a.n + b.n)

\* a < b: false when either side is NaN
LessThan(a, b) == ~a.nan /\ ~b.nan /\ a.n < b.n

\* ToIntegerOrInfinity, as Array.prototype.slice applies it to its arguments
ToIntegerOrInfinity(a) == IF a.nan THEN 0 ELSE a.n

\* Array.prototype.slice(start, end)
slice(s, start, end) ==
  LET len == Len(s)
      relative(k) ==
        IF k < 0 THEN (IF len + k < 0 THEN 0 ELSE len + k)
        ELSE (IF k > len THEN len ELSE k)
      from == relative(ToIntegerOrInfinity(start))
      to == relative(ToIntegerOrInfinity(end))
  IN  IF to <= from THEN << >> ELSE SubSeq(s, from + 1, to)

\* Number.parseInt on the texts PINECONE_CHUNK_SIZE can hold
parseInt(text) ==
  CASE text = "100" -> Number(100)
    [] text = "2" -> Number(2)
    [] text = "1" -> Number(1)
    [] text = "0" -> Number(0)
    [] OTHER -> NaN

\* what getEnv("PINECONE_CHUNK_SIZE") returns: unset, or the text the operator set
ChunkSizeEnvValues == {U, "2", "1", "0", "abc"}

\* params?.chunkSize: absent (the empty sequence), or the number the caller passes
ChunkSizeParams == {<< >>, <<Number(2)>>}

\* constructor: params?.chunkSize ?? Number.parseInt(getEnv("PINECONE_CHUNK_SIZE") ?? "100")
constructorChunkSize(param, envValue) ==
  IF param # << >> THEN param[1]
  ELSE parseInt(IF envValue # U THEN envValue ELSE "100")

\* the two concurrent calls on the store, and the methods they can run
Calls == {"a", "b"}
Ops == {"client", "index", "clearIndex", "add", "delete", "query"}

\* the node lists add can receive: <<1, ..., n>>
NodeLists == {[k \in 1..n |-> k] : n \in 0..MaxNodes}

Range(s) == {s[k] : k \in 1..Len(s)}

\* the history keeps the first MaxSent upserts of a call
MaxSent == MaxNodes + 1

\* the for loop of add, from its test with the index at index: either the next
\* chunk goes to saveChunk and upsert, or the loop ends and add resolves
addLoop(c, index) ==
  /\ loopIndex' = [loopIndex EXCEPT ![c] = index]
  /\ IF LessThan(index, Number(Len(nodes)))
     THEN LET next == slice(nodes, index, Plus(index, chunkSize))
          IN  /\ chunk' = [chunk EXCEPT ![c] = next]
              /\ sent' = [sent EXCEPT ![c] =
                            IF Len(@) < MaxSent THEN Append(@, next) ELSE @]
              /\ cpc' = [cpc EXCEPT ![c] = "upserting"]
     ELSE /\ cpc' = [cpc EXCEPT ![c] = "resolved"]
          /\ UNCHANGED <<chunk, sent>>

\* the outcome of the upsert in flight goes to the history, if its chunk did
recordOutcome(c, ok) ==
  outcomes' = [outcomes EXCEPT ![c] =
                 IF Len(@) < Len(sent[c]) THEN Append(@, ok) ELSE @]

\* add: if (embeddingResults.length == 0) return Promise.resolve([])
AddEmpty(c) ==
  /\ cpc[c] = "start" /\ op[c] = "add" /\ Len(nodes) = 0
  /\ cpc' = [cpc EXCEPT ![c] = "resolved"]
  /\ UNCHANGED <<db, constructed, chunkSize, stored, nodes, op, made, client,
                 loopIndex, chunk, sent, outcomes, threw>>
  /\ UNCHANGED askVars

\* getDb up to its first await: if (!this.db) await import(...), else return this.db
GetDbCheck(c) ==
  /\ cpc[c] = "start" /\ ~(op[c] = "add" /\ Len(nodes) = 0)
  /\ IF db = 0
     THEN /\ cpc' = [cpc EXCEPT ![c] = "importing"]
          /\ UNCHANGED client
     ELSE /\ cpc' = [cpc EXCEPT ![c] = "gotDb"]
          /\ client' = [client EXCEPT ![c] = db]
  /\ UNCHANGED <<db, constructed, chunkSize, stored, nodes, op, made,
                 loopIndex, chunk, sent, outcomes, threw>>
  /\ UNCHANGED askVars

\* getDb after the import: new Pinecone(), awaited
GetDbConstruct(c) ==
  /\ cpc[c] = "importing"
  /\ constructed' = constructed + 1
  /\ made' = [made EXCEPT ![c] = constructed + 1]
  /\ cpc' = [cpc EXCEPT ![c] = "constructing"]
  /\ UNCHANGED <<db, chunkSize, stored, nodes, op, client, loopIndex, chunk, sent,
                 outcomes, threw>>
  /\ UNCHANGED askVars

\* getDb after the second await: this.db = <the client>; return Promise.resolve(this.db)
GetDbAssign(c) ==
  /\ cpc[c] = "constructing"
  /\ db' = made[c]
  /\ client' = [client EXCEPT ![c] = made[c]]
  /\ cpc' = [cpc EXCEPT ![c] = "gotDb"]
  /\ UNCHANGED <<constructed, chunkSize, stored, nodes, op, made, loopIndex, chunk,
                 sent, outcomes, threw>>
  /\ UNCHANGED askVars

\* client, index, clearIndex, delete, query once getDb returned: the call of the
\* Pinecone SDK on the client, which returns or throws
UseClient(c) ==
  /\ cpc[c] = "gotDb" /\ op[c] # "add"
  /\ \/ /\ cpc' = [cpc EXCEPT ![c] = "resolved"]
        /\ CASE op[c] = "clearIndex" -> stored' = {}
             [] op[c] = "delete" -> \E id \in 1..MaxNodes : stored' = stored \ {id}
             [] OTHER -> UNCHANGED stored
     \/ /\ op[c] \in {"clearIndex", "delete", "query"}
        /\ cpc' = [cpc EXCEPT ![c] = "rejected"]
        /\ UNCHANGED stored
  /\ UNCHANGED <<db, constructed, chunkSize, nodes, op, made, client, loopIndex, chunk,
                 sent, outcomes, threw>>
  /\ UNCHANGED askVars

\* add once index() returned: the records are mapped and the loop starts at i = 0
AddFirstChunk(c) ==
  /\ cpc[c] = "gotDb" /\ op[c] = "add"
  /\ addLoop(c, Number(0))
  /\ UNCHANGED <<db, constructed, chunkSize, stored, nodes, op, made, client,
                 outcomes, threw>>
  /\ UNCHANGED askVars

\* saveChunk: idx.upsert(chunk) returned, saveChunk returns true
UpsertReturns(c) ==
  /\ cpc[c] = "upserting"
  /\ stored' = stored \cup Range(chunk[c])
  /\ recordOutcome(c, TRUE)
  /\ cpc' = [cpc EXCEPT ![c] = "saved"]
  /\ UNCHANGED <<db, constructed, chunkSize, nodes, op, made, client,
                 loopIndex, chunk, sent, threw>>
  /\ UNCHANGED askVars

\* add once saveChunk returned true: i += this.chunkSize, and the loop test
AddNextChunk(c) ==
  /\ cpc[c] = "saved"
  /\ addLoop(c, Plus(loopIndex[c], chunkSize))
  /\ UNCHANGED <<db, constructed, chunkSize, stored, nodes, op, made, client,
                 outcomes, threw>>
  /\ UNCHANGED askVars

\* saveChunk where a throwing upsert is taken for a success: the loop goes on
UpsertThrows_GoesOn(c) ==
  /\ cpc[c] = "upserting"
  /\ recordOutcome(c, FALSE)
  /\ threw' = [threw EXCEPT ![c] = TRUE]
  /\ cpc' = [cpc EXCEPT ![c] = "saved"]
  /\ UNCHANGED <<db, constructed, chunkSize, stored, nodes, op, made, client,
                 loopIndex, chunk, sent>>
  /\ UNCHANGED askVars

\* saveChunk: idx.upsert(chunk) threw, saveChunk returns false; add: return Promise.reject()
UpsertThrows(c) ==
  /\ cpc[c] = "upserting"
  /\ recordOutcome(c, FALSE)
  /\ threw' = [threw EXCEPT ![c] = TRUE]
  /\ cpc' = [cpc EXCEPT ![c] = "rejected"]
  /\ UNCHANGED <<db, constructed, chunkSize, stored, nodes, op, made, client,
                 loopIndex, chunk, sent>>
  /\ UNCHANGED askVars

\* no store exists: the values of the store variables while askQuestions runs
NoStore ==
  /\ db = 0
  /\ constructed = 0
  /\ chunkSize = parseInt("100")
  /\ stored = {}
  /\ nodes = << >>
  /\ op = [c \in Calls |-> "none"]
  /\ cpc = [c \in Calls |-> "none"]
  /\ made = [c \in Calls |-> 0]
  /\ client = [c \in Calls |-> 0]
  /\ loopIndex = [c \in Calls |-> Number(0)]
  /\ chunk = [c \in Calls |-> << >>]
  /\ sent = [c \in Calls |-> << >>]
  /\ outcomes = [c \in Calls |-> << >>]
  /\ threw = [c \in Calls |-> FALSE]

\* askQuestions is not running: the values of its variables while the store is used
NoRun ==
  /\ program = [f \in Fields |-> U]
  /\ preferences = [f \in Fields |-> U]
  /\ heap = [r \in Refs |-> NoneDataSource]
  /\ pc = "none"
  /\ asked = << >>
  /\ answers = [n \in PromptNames |-> U]
  /\ actionChoices = {}
  /\ lastStep = "start"
  /\ aborted = U
  /\ input = program
  /\ inputPreferences = preferences
  /\ inputHeap = heap
  /\ isCI = FALSE
  /\ env = [OPENAI_API_KEY |-> U, LLAMA_CLOUD_API_KEY |-> U, platform |-> "linux"]

\* a store is constructed, and two calls are made on it before either has run
InitPinecone ==
  /\ \E param \in ChunkSizeParams, envValue \in ChunkSizeEnvValues :
       chunkSize = constructorChunkSize(param, envValue)
  /\ db = 0
  /\ constructed = 0
  /\ stored = {}
  /\ nodes \in NodeLists
  /\ op \in [Calls -> Ops]
  /\ cpc = [c \in Calls |-> "start"]
  /\ made = [c \in Calls |-> 0]
  /\ client = [c \in Calls |-> 0]
  /\ loopIndex = [c \in Calls |-> Number(0)]
  /\ chunk = [c \in Calls |-> << >>]
  /\ sent = [c \in Calls |-> << >>]
  /\ outcomes = [c \in Calls |-> << >>]
  /\ threw = [c \in Calls |-> FALSE]
  /\ NoRun

NextPinecone ==
  \/ \E c \in Calls : AddEmpty(c)
  \/ \E c \in Calls : GetDbCheck(c)
  \/ \E c \in Calls : GetDbConstruct(c)
  \/ \E c \in Calls : GetDbAssign(c)
  \/ \E c \in Calls : UseClient(c)
  \/ \E c \in Calls : AddFirstChunk(c)
  \/ \E c \in Calls : UpsertReturns(c)
  \/ \E c \in Calls : AddNextChunk(c)
  \/ \E c \in Calls : UpsertThrows(c)

SpecPinecone == InitPinecone /\ [][NextPinecone]_vars

\* the steps of one call
CallStep(c) ==
  \/ AddEmpty(c)
  \/ GetDbCheck(c)
  \/ GetDbConstruct(c)
  \/ GetDbAssign(c)
  \/ UseClient(c)
  \/ AddFirstChunk(c)
  \/ UpsertReturns(c)
  \/ AddNextChunk(c)
  \/ UpsertThrows(c)

\* the event loop resumes every call whose awaited promise has settled, and
\* every SDK call the store awaits returns or throws
SpecPineconeFair == SpecPinecone /\ \A c \in Calls : WF_vars(CallStep(c))

----------------------------------------------------------------------------
(* State changes *)

Set(rec, field, value) == [rec EXCEPT ![field] = value]

\* the type of the data source of prog, program.dataSource?.type
dataSourceType(prog, hp) ==
  IF prog.dataSource = U THEN U ELSE hp[prog.dataSource].type

\* (program.dataSource?.config as FileSourceConfig)?.useLlamaParse
dataSourceUseLlamaParse(prog, hp) ==
  IF prog.dataSource = U THEN U ELSE hp[prog.dataSource].config.useLlamaParse

\* the step leaves the state prog, prefs, hp and control goes to next
Advance(next, step, prog, prefs, hp, ask, ans) ==
  /\ pc' = next
  /\ lastStep' = step
  /\ program' = prog
  /\ preferences' = prefs
  /\ heap' = hp
  /\ asked' = ask
  /\ answers' = ans
  /\ UNCHANGED <<actionChoices, aborted, input, inputPreferences, inputHeap, isCI, env>>
  /\ UNCHANGED storeVars

\* the step does nothing
Skip(next, step) ==
  Advance(next, step, program, preferences, heap, asked, answers)

\* the operator aborts the prompt name, and control goes to next
Abort(name, next, step, prog, prefs, hp, ask, ans) ==
  /\ pc' = next
  /\ lastStep' = step
  /\ program' = prog
  /\ preferences' = prefs
  /\ heap' = hp
  /\ asked' = Append(ask, name)
  /\ answers' = ans
  /\ aborted' = name
  /\ UNCHANGED <<actionChoices, input, inputPreferences, inputHeap, isCI, env>>
  /\ UNCHANGED storeVars

\* handlers.onCancel: process.exit(1) when the prompt is aborted
onCancel(name, step, prog, hp) ==
  Abort(name, "exited", step, prog, preferences, hp, asked, answers)

\* onPromptState: process.exit(1) when state.aborted
onPromptState(name, step) ==
  Abort(name, "exited", step, program, preferences, heap, asked, answers)

\* a CI-mode lookup that takes the default whatever the preferences hold
Lookup_DefaultOnly(next, step, field) ==
  Advance(next, step, Set(program, field, defaults[field]),
          preferences, heap, asked, answers)

\* a CI-mode lookup: program[field] = getPrefOrDefault(field)
Lookup(next, step, field) ==
  Advance(next, step, Set(program, field, getPrefOrDefault(preferences, field)),
          preferences, heap, asked, answers)

\* an answered prompt whose answer goes to program[field] and preferences[field]
Answer(next, step, field, a) ==
  Advance(next, step, Set(program, field, a), Set(preferences, field, a), heap,
          Append(asked, field), Set(answers, field, a))

----------------------------------------------------------------------------
(* The steps of askQuestions, in the order of the code *)

\* if (!program.template) ...
StepTemplate ==
  /\ pc = "template"
  /\ IF Falsy(program.template)
     THEN IF isCI
          THEN Lookup("community", "template", "template")
          ELSE \/ \E a \in TemplateChoices :
                    Answer("community", "template", "template", a)
               \/ onCancel("template", "template", program, heap)
     ELSE Skip("community", "template")

\* StepCommunity without its early return: the pipeline goes on
StepCommunity_NoReturn ==
  /\ pc = "community"
  /\ IF program.template = "community"
     THEN \/ \E a \in rootFolderNames :
               Answer("llamapack", "community", "communityProjectPath", a)
          \/ onCancel("communityProjectPath", "community", program, heap)
     ELSE Skip("llamapack", "community")

\* if (program.template === "community") ... return
StepCommunity ==
  /\ pc = "community"
  /\ IF program.template = "community"
     THEN \/ \E a \in rootFolderNames :
               Answer("done", "community", "communityProjectPath", a)
          \/ onCancel("communityProjectPath", "community", program, heap)
     ELSE Skip("llamapack", "community")

\* StepLlamapack returning without the call of askPostInstallAction
StepLlamapack_NoPostInstall ==
  /\ pc = "llamapack"
  /\ IF program.template = "llamapack"
     THEN \/ \E a \in availableLlamaPacks :
               Answer("done", "llamapack", "llamapack", a)
          \/ onCancel("llamapack", "llamapack", program, heap)
     ELSE Skip("framework", "llamapack")

\* if (program.template === "llamapack") ... await askPostInstallAction(); return
StepLlamapack ==
  /\ pc = "llamapack"
  /\ IF program.template = "llamapack"
     THEN \/ \E a \in availableLlamaPacks :
               Answer("postInstallAction", "llamapack", "llamapack", a)
          \/ onCancel("llamapack", "llamapack", program, heap)
     ELSE Skip("framework", "llamapack")

\* if (!program.framework) ...
StepFramework ==
  /\ pc = "framework"
  /\ IF Falsy(program.framework)
     THEN IF isCI
          THEN Lookup("frontend", "framework", "framework")
          ELSE \/ \E a \in FrameworkChoices(program.template) :
                    Answer("frontend", "framework", "framework", a)
               \/ onCancel("framework", "framework", program, heap)
     ELSE Skip("frontend", "framework")

\* if (template === "streaming" && framework is express or fastapi) ... else frontend = false
StepFrontend ==
  /\ pc = "frontend"
  /\ IF program.template = "streaming" /\ program.framework \in {"express", "fastapi"}
     THEN IF program.frontend = U
          THEN IF isCI
               THEN Lookup("ui", "frontend", "frontend")
               ELSE \/ \E a \in ToggleAnswers :
                         Answer("ui", "frontend", "frontend", ToBoolean(a))
                    \/ onPromptState("frontend", "frontend")
          ELSE Skip("ui", "frontend")
     ELSE Advance("ui", "frontend", Set(program, "frontend", "false"),
                  preferences, heap, asked, answers)

\* if (program.framework === "nextjs" || program.frontend) if (!program.ui) ...
StepUi ==
  /\ pc = "ui"
  /\ IF (program.framework = "nextjs" \/ Truthy(program.frontend)) /\ Falsy(program.ui)
     THEN IF isCI
          THEN Lookup("model", "ui", "ui")
          ELSE \/ \E a \in UiAnswers : Answer("model", "ui", "ui", a)
               \/ onCancel("ui", "ui", program, heap)
     ELSE Skip("model", "ui")

\* if (!program.model) ...
StepModel ==
  /\ pc = "model"
  /\ IF Falsy(program.model)
     THEN IF isCI
          THEN Lookup("embeddingModel", "model", "model")
          ELSE \/ \E a \in ModelAnswers :
                    Answer("embeddingModel", "model", "model", a)
               \/ onCancel("model", "model", program, heap)
     ELSE Skip("embeddingModel", "model")

\* StepEmbeddingModel without the test of the framework
StepEmbeddingModel_AnyFramework ==
  /\ pc = "embeddingModel"
  /\ IF Falsy(program.embeddingModel)
     THEN IF isCI
          THEN Lookup("files", "embeddingModel", "embeddingModel")
          ELSE \/ \E a \in EmbeddingModelAnswers :
                    Answer("files", "embeddingModel", "embeddingModel", a)
               \/ onCancel("embeddingModel", "embeddingModel", program, heap)
     ELSE Skip("files", "embeddingModel")

\* if (!program.embeddingModel && program.framework === "fastapi") ...
StepEmbeddingModel ==
  /\ pc = "embeddingModel"
  /\ IF Falsy(program.embeddingModel) /\ program.framework = "fastapi"
     THEN IF isCI
          THEN Lookup("files", "embeddingModel", "embeddingModel")
          ELSE \/ \E a \in EmbeddingModelAnswers :
                    Answer("files", "embeddingModel", "embeddingModel", a)
               \/ onCancel("embeddingModel", "embeddingModel", program, heap)
     ELSE Skip("files", "embeddingModel")

\* if (program.files) { program.engine == "context"; ... }
\* the comparison program.engine == "context" assigns nothing
StepFiles ==
  /\ pc = "files"
  /\ IF Truthy(program.files)
     THEN IF ~existsSync(program.files)
          THEN Advance("exited", "files", program, preferences, heap, asked, answers)
          ELSE Advance("engine", "files", Set(program, "dataSource", "newDS"),
                       preferences,
                       Set(heap, "newDS",
                           DataSource(IF isDirectory(program.files) THEN "folder" ELSE "file",
                                      Set(EmptyConfig, "path", program.files))),
                       asked, answers)
     ELSE Skip("engine", "files")

\* the switch on the answer of the data source prompt; ref is the object that
\* program.dataSource = getPrefOrDefault("dataSource") names
dataSourceSwitch(choice, ref, ask, ans) ==
  LET prog == Set(program, "dataSource", ref)
      context == Set(prog, "engine", "context")
      fresh(type, config) ==
        Advance("llamaParse", "engine", Set(context, "dataSource", "newDS"),
                preferences, Set(heap, "newDS", DataSource(type, config)), ask, ans)
      picked(type) ==
        \E outcome \in PickerOutcomes(type) :
          LET path == selectLocalContextData(type, env.platform, outcome)
          IN  IF path = "exit"
              THEN Advance("exited", "engine", context, preferences, heap, ask, ans)
              ELSE fresh(type, Set(EmptyConfig, "path", path))
  IN  CASE choice = "simple" ->
             Advance("llamaParse", "engine",
                     Set(Set(prog, "engine", "simple"), "dataSource", "newDS"),
                     preferences, Set(heap, "newDS", NoneDataSource), ask, ans)
        [] choice = "exampleFile" -> fresh("folder", EmptyConfig)
        [] choice = "localFile" -> picked("file")
        [] choice = "localFolder" -> picked("folder")
        [] choice = "web" ->
             Advance("llamaParse", "engine", context, preferences,
                     Set(heap, ref, Set(heap[ref], "type", "web")), ask, ans)

\* if (!program.engine) ... else if (!program.dataSource) ...
StepEngine ==
  /\ pc = "engine"
  /\ IF Falsy(program.engine)
     THEN IF isCI
          THEN Lookup("llamaParse", "engine", "engine")
          ELSE \/ \E choice \in getDataSourceChoices(program.framework, env.platform) :
                    LET ref == getPrefOrDefault(preferences, "dataSource")
                        ask == Append(asked, "dataSource")
                        ans == Set(answers, "dataSource", choice)
                    IN  IF Truthy(ref)
                        THEN dataSourceSwitch(choice, ref, ask, ans)
                        ELSE Advance("llamaParse", "engine",
                                     Set(program, "dataSource", ref),
                                     preferences, heap, ask, ans)
               \/ onCancel("dataSource", "engine", program, heap)
     ELSE IF Falsy(program.dataSource)
          THEN IF program.engine = "context"
               THEN Advance("llamaParse", "engine", Set(program, "dataSource", "newDS"),
                            preferences,
                            Set(heap, "newDS", DataSource("folder", EmptyConfig)),
                            asked, answers)
               ELSE IF program.engine = "simple"
                    THEN Advance("llamaParse", "engine",
                                 Set(program, "dataSource", "newDS"), preferences,
                                 Set(heap, "newDS", NoneDataSource), asked, answers)
                    ELSE Skip("llamaParse", "engine")
          ELSE Skip("llamaParse", "engine")

\* the LlamaCloud key prompt that ends the interactive branch of the LlamaParse step
llamaCloudKeyPrompt(hp, ask, ans) ==
  IF Truthy(hp[program.dataSource].config.useLlamaParse) /\ program.llamaCloudKey = U
  THEN \/ \E key \in LlamaCloudKeyAnswers :
            Advance("webBaseUrl", "llamaParse", Set(program, "llamaCloudKey", key),
                    preferences, hp, Append(ask, "llamaCloudKey"),
                    Set(ans, "llamaCloudKey", key))
       \/ Abort("llamaCloudKey", "exited", "llamaParse", program, preferences, hp, ask, ans)
  ELSE Advance("webBaseUrl", "llamaParse", program, preferences, hp, ask, ans)

\* if (dataSource type is file or folder, and framework === "fastapi") ...
StepLlamaParse ==
  /\ pc = "llamaParse"
  /\ IF dataSourceType(program, heap) \in {"file", "folder"} /\ program.framework = "fastapi"
     THEN IF isCI
          THEN Lookup("webBaseUrl", "llamaParse", "llamaCloudKey")
          ELSE LET ref == program.dataSource
                   dataSourceConfig ==
                     Set(heap[ref].config, "useLlamaParse", program.llamaParse)
                   hp1 == Set(heap, ref, Set(heap[ref], "config", dataSourceConfig))
                   askingLlamaParse ==
                     /\ dataSourceConfig.useLlamaParse = U
                     /\ IF heap[ref].type = "folder"
                        THEN TRUE
                        ELSE /\ Truthy(dataSourceConfig.path)
                             /\ extname(dataSourceConfig.path) = ".pdf"
               IN  IF askingLlamaParse
                   THEN \/ \E a \in ToggleAnswers :
                             llamaCloudKeyPrompt(
                               Set(heap, ref,
                                   Set(heap[ref], "config",
                                       Set(dataSourceConfig, "useLlamaParse", a))),
                               Append(asked, "useLlamaParse"),
                               Set(answers, "useLlamaParse", a))
                        \/ onCancel("useLlamaParse", "llamaParse", program, hp1)
                   ELSE llamaCloudKeyPrompt(hp1, asked, answers)
     ELSE Skip("webBaseUrl", "llamaParse")

\* if (program.dataSource?.type === "web" && program.framework === "fastapi") ...
StepWebBaseUrl ==
  /\ pc = "webBaseUrl"
  /\ IF dataSourceType(program, heap) = "web" /\ program.framework = "fastapi"
     THEN \/ \E text \in UrlTexts :
               LET baseUrl == checkBaseUrl(text)
                   ask == Append(asked, "baseUrl")
                   ans == Set(answers, "baseUrl", text)
                   ref == program.dataSource
               IN  IF baseUrl = "exit"
                   THEN Advance("exited", "webBaseUrl", program, preferences, heap, ask, ans)
                   ELSE Advance("vectorDb", "webBaseUrl", program, preferences,
                                Set(heap, ref,
                                    Set(heap[ref], "config",
                                        [path |-> U, useLlamaParse |-> U,
                                         baseUrl |-> baseUrl, depth |-> "1"])),
                                ask, ans)
          \/ onCancel("baseUrl", "webBaseUrl", program, heap)
     ELSE Skip("vectorDb", "webBaseUrl")

\* if (program.engine !== "simple" && !program.vectorDb) ...
StepVectorDb ==
  /\ pc = "vectorDb"
  /\ IF program.engine # "simple" /\ Falsy(program.vectorDb)
     THEN IF isCI
          THEN Lookup("tools", "vectorDb", "vectorDb")
          ELSE \/ \E a \in getVectorDbChoices(program.framework) :
                    Answer("tools", "vectorDb", "vectorDb", a)
               \/ onCancel("vectorDb", "vectorDb", program, heap)
     ELSE Skip("tools", "vectorDb")

\* if (!program.tools && framework === "fastapi" && engine === "context") ...
\* the multiselect prompt is given neither handlers nor onState: when it is
\* aborted, prompts returns {} and toolsName?.map(...) is undefined
StepTools ==
  /\ pc = "tools"
  /\ IF Falsy(program.tools) /\ program.framework = "fastapi" /\ program.engine = "context"
     THEN IF isCI
          THEN Lookup("openAiKey", "tools", "tools")
          ELSE \/ \E a \in ToolLists : Answer("openAiKey", "tools", "tools", a)
               \/ Abort("tools", "openAiKey", "tools", Set(program, "tools", U),
                        Set(preferences, "tools", U), heap, asked, answers)
     ELSE Skip("openAiKey", "tools")

\* if (!program.openAiKey) ...  (no CI branch)
StepOpenAiKey ==
  /\ pc = "openAiKey"
  /\ IF Falsy(program.openAiKey)
     THEN \/ \E a \in OpenAiKeyAnswers :
               Answer("eslint", "openAiKey", "openAiKey", a)
          \/ onCancel("openAiKey", "openAiKey", program, heap)
     ELSE Skip("eslint", "openAiKey")

\* if (program.framework !== "fastapi" && program.eslint === undefined) ...
StepEslint ==
  /\ pc = "eslint"
  /\ IF program.framework # "fastapi" /\ program.eslint = U
     THEN IF isCI
          THEN Lookup("postInstallAction", "eslint", "eslint")
          ELSE \/ \E a \in ToggleAnswers :
                    Answer("postInstallAction", "eslint", "eslint", ToBoolean(a))
               \/ onPromptState("eslint", "eslint")
     ELSE Skip("postInstallAction", "eslint")

\* canRunApp without the test of program.llamapack
canRunApp_IgnoresLlamaPack(prog, hp, environment) ==
  LET openAiKeyConfigured == Truthy(prog.openAiKey) \/ Truthy(environment.OPENAI_API_KEY)
      llamaCloudKeyConfigured ==
        IF Truthy(dataSourceUseLlamaParse(prog, hp))
        THEN Truthy(prog.llamaCloudKey) \/ Truthy(environment.LLAMA_CLOUD_API_KEY)
        ELSE TRUE
      hasVectorDb == Truthy(prog.vectorDb) /\ prog.vectorDb # "none"
  IN  /\ ~hasVectorDb
      /\ openAiKeyConfigured
      /\ llamaCloudKeyConfigured
      /\ ~toolsRequireConfig(prog.tools)

\* the condition under which askPostInstallAction offers "runApp"
canRunApp(prog, hp, environment) ==
  LET openAiKeyConfigured == Truthy(prog.openAiKey) \/ Truthy(environment.OPENAI_API_KEY)
      llamaCloudKeyConfigured ==
        IF Truthy(dataSourceUseLlamaParse(prog, hp))
        THEN Truthy(prog.llamaCloudKey) \/ Truthy(environment.LLAMA_CLOUD_API_KEY)
        ELSE TRUE
      hasVectorDb == Truthy(prog.vectorDb) /\ prog.vectorDb # "none"
  IN  /\ ~hasVectorDb
      /\ openAiKeyConfigured
      /\ llamaCloudKeyConfigured
      /\ ~toolsRequireConfig(prog.tools)
      /\ Falsy(prog.llamapack)

\* askPostInstallAction
askPostInstallAction ==
  /\ pc = "postInstallAction"
  /\ UNCHANGED <<input, inputPreferences, inputHeap, isCI, env, heap>>
  /\ UNCHANGED storeVars
  /\ lastStep' = "postInstallAction"
  /\ IF program.postInstallAction = U
     THEN IF isCI
          THEN /\ program' = Set(program, "postInstallAction",
                                 getPrefOrDefault(preferences, "postInstallAction"))
               /\ pc' = "done"
               /\ UNCHANGED <<preferences, asked, answers, actionChoices, aborted>>
          ELSE LET choices ==
                     {"none", "VSCode", "dependencies"}
                       \cup (IF canRunApp(program, heap, env) THEN {"runApp"} ELSE {})
               IN  /\ actionChoices' = choices
                   /\ asked' = Append(asked, "postInstallAction")
                   /\ UNCHANGED preferences
                   /\ \/ \E action \in choices :
                           /\ program' = Set(program, "postInstallAction", action)
                           /\ answers' = Set(answers, "postInstallAction", action)
                           /\ pc' = "done"
                           /\ UNCHANGED aborted
                      \/ /\ pc' = "exited"
                         /\ aborted' = "postInstallAction"
                         /\ UNCHANGED <<program, answers>>
     ELSE /\ pc' = "done"
          /\ UNCHANGED <<program, preferences, asked, answers, actionChoices, aborted>>

----------------------------------------------------------------------------
(* The calls of askQuestions the model explores *)

EmptyArgs == [f \in Fields |-> U]

\* data source objects a caller passes
FolderDataSource == DataSource("folder", Set(EmptyConfig, "path", "/data"))
PdfDataSource == DataSource("file", Set(EmptyConfig, "path", "/doc.pdf"))
WebDataSource ==
  DataSource("web", [path |-> U, useLlamaParse |-> U,
                     baseUrl |-> "http://example.com", depth |-> "1"])

\* calls with few options given: the operator (or the lookup) resolves the rest
SparseArgs ==
  {EmptyArgs,
   [template |-> "streaming", files |-> "/data"] @@ EmptyArgs,
   [template |-> "streaming", framework |-> "fastapi", files |-> "/doc.pdf",
    llamaParse |-> "true"] @@ EmptyArgs,
   [files |-> "/missing"] @@ EmptyArgs,
   [llamapack |-> "pack1"] @@ EmptyArgs,
   [openAiKey |-> "sk-key"] @@ EmptyArgs,
   [engine |-> "context"] @@ EmptyArgs,
   [engine |-> "simple", embeddingModel |-> "text-embedding-3-small"] @@ EmptyArgs,
   [frontend |-> "true", llamaCloudKey |-> "lc-key"] @@ EmptyArgs,
   [template |-> "streaming", framework |-> "fastapi", llamaParse |-> "false",
    vectorDb |-> "pg", postInstallAction |-> "none"] @@ EmptyArgs,
   [template |-> "community", communityProjectPath |-> "folder1"] @@ EmptyArgs,
   [template |-> "llamapack", vectorDb |-> "none", openAiKey |-> "sk-key"] @@ EmptyArgs,
   [template |-> "streaming", framework |-> "nextjs", frontend |-> "true",
    engine |-> "context", llamapack |-> "pack1"] @@ EmptyArgs,
   [template |-> "simple", framework |-> "fastapi", engine |-> "simple",
    vectorDb |-> "pg", tools |-> "[google]", openAiKey |-> "sk-key"] @@ EmptyArgs}

\* calls with every option given
FullArgs ==
  {[template |-> t, framework |-> fw, engine |-> e, ui |-> "shadcn",
    eslint |-> "false", frontend |-> fe, openAiKey |-> "sk-key",
    llamaCloudKey |-> "lc-key", model |-> "gpt-4",
    embeddingModel |-> "text-embedding-3-small",
    communityProjectPath |-> "folder1", llamapack |-> "pack1",
    postInstallAction |-> "VSCode", dataSource |-> "inputDS",
    tools |-> "[wikipedia]", vectorDb |-> "none", files |-> fi,
    llamaParse |-> "false"] :
     t \in TemplateChoices, fw \in {"nextjs", "express", "fastapi"},
     e \in {"simple", "context"}, fe \in {"true", "false"},
     fi \in {U, "/data"}}

InputDataSources == {NoneDataSource, FolderDataSource, PdfDataSource, WebDataSource}

\* preferences tables: none stored, and two stored by earlier runs
EmptyPrefs == EmptyArgs
FastapiPrefs ==
  [template |-> "simple", framework |-> "fastapi", engine |-> "context",
   ui |-> "shadcn", eslint |-> "false", frontend |-> "true",
   openAiKey |-> "sk-pref", llamaCloudKey |-> "lc-pref",
   model |-> "gpt-4-turbo-preview", embeddingModel |-> "text-embedding-3-large",
   communityProjectPath |-> "folder1", llamapack |-> "pack1",
   postInstallAction |-> "VSCode", dataSource |-> "prefsDS",
   tools |-> "[wikipedia]", vectorDb |-> "pg", files |-> U, llamaParse |-> "true"]
ExpressPrefs ==
  [template |-> "streaming", framework |-> "express", frontend |-> "true",
   engine |-> "context"] @@ EmptyArgs

Platforms == {"linux", "darwin"}
Environments ==
  [OPENAI_API_KEY : {U, "sk-env"}, LLAMA_CLOUD_API_KEY : {U, "lc-env"},
   platform : Platforms]

Scenarios ==
  [args : SparseArgs, inputDS : {NoneDataSource}, prefs : {EmptyPrefs, FastapiPrefs},
   isCI : BOOLEAN, env : Environments]
  \cup
  [args : {EmptyArgs}, inputDS : {NoneDataSource}, prefs : {ExpressPrefs},
   isCI : {TRUE}, env : Environments]
  \cup
  [args : {[dataSource |-> "inputDS"] @@ EmptyArgs,
           [template |-> "streaming", framework |-> "fastapi",
            dataSource |-> "inputDS"] @@ EmptyArgs},
   inputDS : InputDataSources, prefs : {EmptyPrefs}, isCI : BOOLEAN,
   env : Environments]
  \cup
  [args : FullArgs, inputDS : InputDataSources, prefs : {FastapiPrefs},
   isCI : BOOLEAN,
   env : {[OPENAI_API_KEY |-> U, LLAMA_CLOUD_API_KEY |-> U, platform |-> "linux"]}]

Init ==
  \E sc \in Scenarios :
    /\ program = sc.args
    /\ preferences = sc.prefs
    /\ heap = [r \in Refs |->
                 CASE r = "inputDS" -> sc.inputDS
                   [] r = "prefsDS" ->
                        IF sc.prefs.dataSource = U THEN NoneDataSource
                        ELSE FolderDataSource
                   [] OTHER -> NoneDataSource]
    /\ pc = "template"
    /\ asked = << >>
    /\ answers = [n \in PromptNames |-> U]
    /\ actionChoices = {}
    /\ lastStep = "start"
    /\ aborted = U
    /\ input = sc.args
    /\ inputPreferences = sc.prefs
    /\ inputHeap = heap
    /\ isCI = sc.isCI
    /\ env = sc.env
    /\ NoStore

Next ==
  \/ StepTemplate
  \/ StepCommunity
  \/ StepLlamapack
  \/ StepFramework
  \/ StepFrontend
  \/ StepUi
  \/ StepModel
  \/ StepEmbeddingModel
  \/ StepFiles
  \/ StepEngine
  \/ StepLlamaParse
  \/ StepWebBaseUrl
  \/ StepVectorDb
  \/ StepTools
  \/ StepOpenAiKey
  \/ StepEslint
  \/ askPostInstallAction

Spec == Init /\ [][Next]_vars

TypeOK ==
  /\ pc \in {"template", "community", "llamapack", "framework", "frontend", "ui",
             "model", "embeddingModel", "files", "engine", "llamaParse",
             "webBaseUrl", "vectorDb", "tools", "openAiKey", "eslint",
             "postInstallAction", "done", "exited"}
  /\ DOMAIN program = Fields
  /\ DOMAIN preferences = Fields

----------------------------------------------------------------------------
(* Properties *)

Completed == pc = "done"

\* the data source a configuration holds, as a value
dataSourceValue(prog, hp) ==
  IF prog.dataSource = U THEN U ELSE hp[prog.dataSource]

\* the fields a CI-mode lookup resolves
LookupFields ==
  {"template", "framework", "frontend", "ui", "model", "embeddingModel", "engine",
   "llamaCloudKey", "vectorDb", "tools", "eslint", "postInstallAction"}

\* the steps that prompt whatever the mode: the community and llamapack
\* selections, the web base URL, and the OpenAI key when it is not supplied
NeedsUnguardedPrompt ==
  \/ Falsy(input.openAiKey)
  \/ program.template \in {"community", "llamapack"}
  \/ (dataSourceType(program, heap) = "web" /\ program.framework = "fastapi")

\* the frontend step asks (or looks up) only for a streaming backend
FrontendIsAsked ==
  program.template = "streaming" /\ program.framework \in {"express", "fastapi"}

C2_FullInputUntouched ==
  (\A f \in Fields : input[f] # U) =>
    /\ asked = << >>
    /\ Completed =>
         /\ \A f \in Fields \ {"dataSource"} : program[f] = input[f]
         /\ dataSourceValue(program, heap) = dataSourceValue(input, inputHeap)

\* C3: when an existing path is supplied as files (template neither community
\* nor llamapack), the resolved engine is "context", the data source is
\* {type: folder or file, config.path: the path}, and no data source prompt is issued.
C3_FilesGiveContextEngine ==
  (/\ Completed
   /\ Truthy(input.files) /\ existsSync(input.files)
   /\ program.template \notin {"community", "llamapack"}) =>
    /\ program.engine = "context"
    /\ program.dataSource # U
    /\ heap[program.dataSource].type =
         (IF isDirectory(input.files) THEN "folder" ELSE "file")
    /\ heap[program.dataSource].config.path = input.files
    /\ \A i \in 1..Len(asked) : asked[i] # "dataSource"

\* C4: whenever askQuestions completes on the standard path (every prompt
\* answered), template, framework, frontend, model, engine, dataSource and
\* postInstallAction are not undefined, nor is ui when a frontend is produced,
\* vectorDb when the engine is not "simple", tools when framework is fastapi and
\* engine "context", eslint when framework is not fastapi.
C4_ConsumedFieldsResolved ==
  (/\ Completed
   /\ aborted = U
   /\ program.template \notin {"community", "llamapack"}) =>
    /\ \A f \in {"template", "framework", "frontend", "model", "engine",
                  "dataSource", "postInstallAction"} : program[f] # U
    /\ (program.framework = "nextjs" \/ program.frontend = "true") => program.ui # U
    /\ program.engine # "simple" => program.vectorDb # U
    /\ (program.framework = "fastapi" /\ program.engine = "context") => program.tools # U
    /\ program.framework # "fastapi" => program.eslint # U

\* C5: if the operator aborts a prompt, whichever it is, the process terminates
\* at once with a non-zero status: no later step runs and no configuration is returned.
C5_AbortExits ==
  aborted # U => pc = "exited"

\* C6: with template "community", askQuestions resolves exactly one community
\* project among the fetched folder names and returns: no field but template and
\* communityProjectPath differs from the input, and no further step runs.
C6_CommunityShortCircuits ==
  (Completed /\ program.template = "community") =>
    /\ lastStep = "community"
    /\ asked # << >> /\ asked[Len(asked)] = "communityProjectPath"
    /\ Cardinality({i \in 1..Len(asked) : asked[i] = "communityProjectPath"}) = 1
    /\ program.communityProjectPath \in rootFolderNames
    /\ \A f \in Fields \ {"template", "communityProjectPath"} : program[f] = input[f]
    /\ heap = inputHeap

C6_Witness ==
  /\ Completed /\ program.template = "community"
  /\ input.template = U /\ ~isCI
  /\ program.communityProjectPath = "folder2"

\* the five conditions of C7, as the claim words them
NoVectorDb == program.vectorDb \in {U, "none"}
OpenAiKeyPresent ==
  program.openAiKey \notin {U, ""} \/ env.OPENAI_API_KEY \notin {U, ""}
LlamaCloudKeyPresentIfNeeded ==
  (program.dataSource # U /\ heap[program.dataSource].config.useLlamaParse = "true")
    => (program.llamaCloudKey \notin {U, ""} \/ env.LLAMA_CLOUD_API_KEY \notin {U, ""})
NoToolNeedsConfig ==
  program.tools = U \/ \A t \in ToolsOf(program.tools) : t \notin ToolsWithConfig
NoLlamaPack == program.llamapack \in {U, ""}

\* C7: in interactive mode the post-install prompt offers "runApp" if and only
\* if vectorDb is unset or "none", an OpenAI key is present (config or
\* environment), a LlamaCloud key is present when the data source requests
\* LlamaParse, no selected tool requires configuration, and no LlamaPack is selected.
C7_RunAppOffered ==
  (~isCI /\ actionChoices # {}) =>
    ("runApp" \in actionChoices <=>
       /\ NoVectorDb
       /\ OpenAiKeyPresent
       /\ LlamaCloudKeyPresentIfNeeded
       /\ NoToolNeedsConfig
       /\ NoLlamaPack)

C7_Witness ==
  /\ ~isCI /\ "runApp" \in actionChoices
  /\ program.dataSource # U
  /\ heap[program.dataSource].config.useLlamaParse = "true"
  /\ program.tools = "[wikipedia]"

\* C8 as stated: on every successful completion, whatever the template, the
\* post-install action has been resolved, and its step is the last one to run.
C8_PostInstallAlwaysLast ==
  Completed => (program.postInstallAction # U /\ lastStep = "postInstallAction")

\* C8 amended: on every successful completion with a template other than
\* "community", the post-install action has been resolved and its step is the
\* last one to run.
C8_PostInstallLastUnlessCommunity ==
  (Completed /\ program.template # "community") =>
    (program.postInstallAction # U /\ lastStep = "postInstallAction")

C8_Witness ==
  /\ Completed /\ program.template = "llamapack"
  /\ input.postInstallAction = U /\ program.postInstallAction # U

\* C9: every field already set on the input holds the same value when
\* askQuestions completes, and its step was skipped: no prompt was answered for it.
C9_ExplicitInputWins ==
  Completed =>
    /\ \A f \in Fields \ {"dataSource"} :
         input[f] # U => (program[f] = input[f] /\ (f \in PromptNames => answers[f] = U))
    /\ input.dataSource # U =>
         (/\ dataSourceValue(program, heap) = dataSourceValue(input, inputHeap)
          /\ answers["dataSource"] = U)

\* the prompts whose answer is the value of the field of the same name
FieldPrompts ==
  {"template", "communityProjectPath", "llamapack", "framework", "frontend", "ui",
   "model", "embeddingModel", "llamaCloudKey", "vectorDb", "tools", "openAiKey",
   "eslint", "postInstallAction"}

\* C10: every answer to a prompt is written into the configuration and into the
\* preferences table under the same field, so that after completion preferences
\* holds the last answer of every field resolved by a prompt.
C10_AnswersReachPreferences ==
  Completed =>
    \A f \in FieldPrompts :
      answers[f] # U => (program[f] = answers[f] /\ preferences[f] = answers[f])



\* the OpenAI key step has run (the standard path: neither community nor llamapack)
PastOpenAiKeyStep ==
  /\ lastStep \in {"openAiKey", "eslint", "postInstallAction"}
  /\ program.template \notin {"community", "llamapack"}

OpenAiKeyPromptIssued == \E i \in 1..Len(asked) : asked[i] = "openAiKey"

\* C11: on the standard path the OpenAI key prompt is issued exactly when the key
\* is not already known from the input or from the process environment.
C11_KeyPromptIffUnknown ==
  PastOpenAiKeyStep =>
    (OpenAiKeyPromptIssued <=>
       (input.openAiKey \in {U, ""} /\ env.OPENAI_API_KEY \in {U, ""}))

\* the LlamaParse step has run on a file or folder data source under fastapi
PastLlamaParseStep ==
  /\ lastStep \in {"llamaParse", "webBaseUrl", "vectorDb", "tools", "openAiKey",
                   "eslint", "postInstallAction"}
  /\ program.template \notin {"community", "llamapack"}
  /\ dataSourceType(program, heap) \in {"file", "folder"}
  /\ program.framework = "fastapi"

\* the caller decided the toggle: by the llamaParse option or in the data source it passed
ToggleSupplied ==
  input.llamaParse # U \/ dataSourceUseLlamaParse(input, inputHeap) # U

\* C12: in CI mode, with a file or folder data source and the fastapi framework,
\* neither the LlamaParse toggle prompt nor the LlamaCloud key prompt is issued,
\* and the data source's useLlamaParse flag and the LlamaCloud key, where not
\* supplied, hold the stored preference when one is present, else the default.
C12_CILlamaParseLookup ==
  (isCI /\ PastLlamaParseStep) =>
    /\ \A i \in 1..Len(asked) : asked[i] \notin {"useLlamaParse", "llamaCloudKey"}
    /\ input.llamaCloudKey = U =>
         program.llamaCloudKey = getPrefOrDefault(inputPreferences, "llamaCloudKey")
    /\ ~ToggleSupplied =>
         heap[program.dataSource].config.useLlamaParse =
           getPrefOrDefault(inputPreferences, "llamaParse")

EmbeddingModelStepRan ==
  \/ \E i \in 1..Len(asked) : asked[i] = "embeddingModel"
  \/ (input.embeddingModel = U /\ program.embeddingModel # U)

\* C13: the embedding-model step (prompt or lookup) runs only when the framework
\* is fastapi; for every other framework an embeddingModel not supplied on input
\* is still unset when askQuestions completes.
C13_EmbeddingModelOnlyFastapi ==
  /\ EmbeddingModelStepRan => program.framework = "fastapi"
  /\ (Completed /\ program.framework # "fastapi" /\ input.embeddingModel = U) =>
       program.embeddingModel = U

C13_Witness ==
  /\ Completed /\ lastStep = "postInstallAction"
  /\ program.framework = "express" /\ program.template = "streaming"
  /\ input.embeddingModel = U /\ program.embeddingModel = U
  /\ input.framework = U

\* the normalization and the validation of C14, on the texts the operator can type
NormalizedUrl(text) ==
  IF \E k \in 1..(Len(text) - 2) : SubSeq(text, k, k + 2) = "://"
  THEN text ELSE "https://" \o text
WellFormedHttpUrls == {"https://www.example.com", "http://example.com"}

\* C14: at the web step, the entered base URL is normalized by prefixing
\* "https://" when it holds no "://"; when the normalized value is a well-formed
\* http or https URL the data source config becomes exactly
\* {baseUrl: normalized, depth: 1}; otherwise the process exits and the config
\* is not written.
C14_BaseUrlNormalizedOrExit ==
  [][(pc = "webBaseUrl" /\ answers'.baseUrl # U) =>
       LET normalized == NormalizedUrl(answers'.baseUrl)
           ref == program.dataSource
       IN  /\ dataSourceType(program, heap) = "web" /\ program.framework = "fastapi"
           /\ program' = program
           /\ IF normalized \in WellFormedHttpUrls
              THEN /\ pc' = "vectorDb"
                   /\ heap'[ref].type = "web"
                   /\ heap'[ref].config =
                        [path |-> U, useLlamaParse |-> U,
                         baseUrl |-> normalized, depth |-> "1"]
              ELSE /\ pc' = "exited"
                   /\ heap' = heap]_vars

C14_Witness ==
  /\ Completed
  /\ answers.baseUrl = "www.example.com"
  /\ heap[program.dataSource] =
       [type |-> "web",
        config |-> [path |-> U, useLlamaParse |-> U,
                    baseUrl |-> "https://www.example.com", depth |-> "1"]]

\* C19: askQuestions never modifies the defaults table, nor a preferences entry
\* other than by recording a prompt answer under the answer's own field:
\* defaults.dataSource is still {type: "none", config: {}}, the object
\* preferences.dataSource names is as it was, and the data source of the
\* resolved configuration is neither of these two objects.
C19_DefaultsAndPreferencesUntouched ==
  /\ heap["defaultsDS"] = NoneDataSource
  /\ heap["prefsDS"] = inputHeap["prefsDS"]
  /\ \A f \in Fields :
       preferences[f] # inputPreferences[f] =>
         (f \in FieldPrompts /\ answers[f] # U /\ preferences[f] = answers[f])
  /\ Completed => program.dataSource \notin {"defaultsDS", "prefsDS"}

----------------------------------------------------------------------------
(* Properties of the Pinecone vector store *)

RECURSIVE Flatten(_)
\* the concatenation of a sequence of chunks
Flatten(chunks) ==
  IF chunks = << >> THEN << >> ELSE Head(chunks) \o Flatten(Tail(chunks))

IsPrefix(s, t) == Len(s) <= Len(t) /\ s = SubSeq(t, 1, Len(s))

AddCalls == {c \in Calls : op[c] = "add"}

\* no other call deletes records from the index
NoDeletion == \A c \in Calls : op[c] \notin {"clearIndex", "delete"}

\* C15: add sends the chunks in order and stops at the first chunk whose upsert
\* throws: the promise rejects, no later chunk is sent, and the chunks upserted
\* before the failure stay in the index; add resolves only if every upsert
\* succeeded.
C15_AddStopsAtFirstFailure ==
  /\ [](\A c \in AddCalls :
          /\ IsPrefix(Flatten(sent[c]), nodes)
          /\ \A k \in 1..Len(outcomes[c]) :
               ~outcomes[c][k] => (k = Len(sent[c]) /\ cpc[c] = "rejected")
          /\ cpc[c] = "rejected" <=> threw[c]
          /\ cpc[c] = "resolved" =>
               (Len(outcomes[c]) = Len(sent[c]) /\ \A k \in 1..Len(outcomes[c]) : outcomes[c][k])
          /\ NoDeletion =>
               \A k \in 1..Len(outcomes[c]) :
                 outcomes[c][k] => Range(sent[c][k]) \subseteq stored)
  /\ [][\A c \in AddCalls :
          /\ (cpc[c] = "upserting" /\ cpc'[c] = "rejected") => stored' = stored
          /\ cpc[c] \in {"resolved", "rejected"} =>
               (cpc'[c] = cpc[c] /\ sent'[c] = sent[c])]_vars

C15_Witness ==
  /\ op["a"] = "add" /\ cpc["a"] = "rejected"
  /\ nodes = <<1, 2, 3>> /\ chunkSize = Number(1)
  /\ sent["a"] = << <<1>>, <<2>> >> /\ outcomes["a"] = <<TRUE, FALSE>>
  /\ stored = {1}

\* C16: when add resolves for a non-empty node list, the chunks sent to upsert
\* are an in-order partition of the input: their concatenation is the input, no
\* chunk holds more than chunkSize records and only the last may hold fewer; for
\* an empty list add resolves without contacting the index.
C16_ChunksPartitionInput ==
  \A c \in AddCalls :
    cpc[c] = "resolved" =>
      IF nodes = << >>
      THEN sent[c] = << >> /\ client[c] = 0
      ELSE /\ Flatten(sent[c]) = nodes
           /\ \A k \in 1..Len(sent[c]) :
                /\ ~chunkSize.nan /\ Len(sent[c][k]) <= chunkSize.n
                /\ k < Len(sent[c]) => Len(sent[c][k]) = chunkSize.n

\* C17: add terminates, resolved or rejected, for every node list and every
\* chunkSize the constructor can produce, given that each upsert returns or throws.
C17_AddTerminates ==
  <>(\A c \in AddCalls : cpc[c] \in {"resolved", "rejected"})

\* C18: across any interleaving of the calls on one store, at most one Pinecone
\* client is ever constructed, and every call uses that same client.
C18_OneClient ==
  /\ constructed <= 1
  /\ \A c, d \in Calls : (client[c] # 0 /\ client[d] # 0) => client[c] = client[d]
====
